---- MODULE Spec2Model ----
(***************************************************************************)
(* Model of update_pypi_repo.py: merging one wheel file into a PEP 503     *)
(* "simple" repository (root index.html, per-package index.html, stored    *)
(* artifact files).                                                        *)
(*                                                                         *)
(* Text is modelled structurally:                                          *)
(*   - a name or path is a sequence of one-character strings;              *)
(*   - the root index is a sequence of tokens (markup, newline, link);     *)
(*   - a package index is a sequence of lines, a line being                *)
(*     [indent, text, trail]: leading whitespace, the text between, and    *)
(*     trailing whitespace other than the line terminator.                 *)
(***************************************************************************)
EXTENDS Integers, Sequences, FiniteSets, TLC

(***************************************************************************)
(* Bounds of the model                                                     *)
(***************************************************************************)
\* number of sequential invocations of the script
MaxMerges == 3
\* number of invocations racing on one repository root
NumProcs == 2

(***************************************************************************)
(* Generic sequence helpers                                                *)
(***************************************************************************)
RECURSIVE SplitAcc(_, _, _, _)
SplitAcc(s, sep, cur, acc) ==
    IF s = <<>> THEN Append(acc, cur)
    ELSE IF Head(s) = sep THEN SplitAcc(Tail(s), sep, <<>>, Append(acc, cur))
    ELSE SplitAcc(Tail(s), sep, Append(cur, Head(s)), acc)

\* str.split(sep): always at least one segment
Split(s, sep) == SplitAcc(s, sep, <<>>, <<>>)

\* os.path.basename: what follows the last "/"
Basename(path) == LET parts == Split(path, "/") IN parts[Len(parts)]

\* str.endswith on sequences
EndsWith(s, suffix) ==
    /\ Len(s) >= Len(suffix)
    /\ SubSeq(s, Len(s) - Len(suffix) + 1, Len(s)) = suffix

\* str.startswith on sequences
StartsWith(s, prefix) ==
    /\ Len(s) >= Len(prefix)
    /\ SubSeq(s, 1, Len(prefix)) = prefix

IsSpace(c) == c \in {" ", "\t", "\r", "\n"}

RECURSIVE LStrip(_)
LStrip(s) == IF s # <<>> /\ IsSpace(Head(s)) THEN LStrip(Tail(s)) ELSE s

RECURSIVE RStrip(_)
RStrip(s) == IF s # <<>> /\ IsSpace(s[Len(s)]) THEN RStrip(SubSeq(s, 1, Len(s) - 1)) ELSE s

\* str.strip on a character sequence
Strip(s) == LStrip(RStrip(s))

Range(s) == { s[i] : i \in 1..Len(s) }

(***************************************************************************)
(* Artifact contents.  A content is the bytes of a file together with the  *)
(* archive structure those bytes decode to.                                *)
(***************************************************************************)
MetaName == <<"a", ".dist-info/", "METADATA">>
OtherName == <<"a", "/", "__init__.py">>

\* a wheel declaring Requires-Python: >=3
Wheel1 == [bytes |-> <<1, 2>>, zip |-> TRUE,
           members |-> << [name |-> OtherName, lines |-> << <<"x">> >>],
                          [name |-> MetaName,
                           lines |-> << <<"Name", ":", " ", "a", "\n">>,
                                        <<"Requires-Python", ":", " ", ">", "=", "3", "\n">> >>] >>]

\* a wheel with a metadata member without a Requires-Python line
Wheel2 == [bytes |-> <<2, 1>>, zip |-> TRUE,
           members |-> << [name |-> MetaName,
                           lines |-> << <<"Name", ":", " ", "a", "\n">> >>] >>]

\* a file that is not a zip archive
NotZip == [bytes |-> <<3>>, zip |-> FALSE, members |-> <<>>]

Contents == {Wheel1, Wheel2, NotZip}

\* a zip archive without a metadata member
Wheel3 == [bytes |-> <<1, 3>>, zip |-> TRUE,
           members |-> << [name |-> OtherName, lines |-> << <<"x">> >>] >>]

(***************************************************************************)
(* calculate_sha256: the digest is folded over the file chunk by chunk;    *)
(* the fold is injective on the contents of the model, as SHA-256 is in    *)
(* practice.                                                               *)
(***************************************************************************)
HashBase == 7

RECURSIVE Sha256Update(_, _)
Sha256Update(h, bytes) ==
    IF bytes = <<>> THEN h
    ELSE Sha256Update(h * HashBase + Head(bytes) + 1, Tail(bytes))

calculate_sha256(content) == Sha256Update(0, content.bytes)

(***************************************************************************)
(* extract_requires_python                                                 *)
(***************************************************************************)
None == [some |-> FALSE, v |-> <<>>]
Some(x) == [some |-> TRUE, v |-> x]

\* decoded_line.split(":", 1)[1]: what follows the first ":"
RECURSIVE AfterFirstColon(_)
AfterFirstColon(line) ==
    IF line = <<>> THEN <<>>
    ELSE IF Head(line) = ":" THEN Tail(line)
    ELSE AfterFirstColon(Tail(line))

RECURSIVE ScanLines(_)
ScanLines(lines) ==
    IF lines = <<>> THEN None
    ELSE LET decoded_line == Strip(Head(lines)) IN
         IF StartsWith(decoded_line, <<"Requires-Python", ":">>)
         THEN Some(Strip(AfterFirstColon(decoded_line)))
         ELSE ScanLines(Tail(lines))

RECURSIVE ScanMembers(_)
ScanMembers(members) ==
    IF members = <<>> THEN None
    ELSE IF EndsWith(Head(members).name, <<".dist-info/", "METADATA">>)
            /\ ScanLines(Head(members).lines).some
         THEN ScanLines(Head(members).lines)
         ELSE ScanMembers(Tail(members))

extract_requires_python(content) ==
    IF ~content.zip THEN None      \* BadZipFile is caught: warning, None
    ELSE ScanMembers(content.members)

\* what extract_requires_python returns for each artifact content of the model
RequiresPythonOf == [content \in Contents \cup {Wheel3} |-> extract_requires_python(content)]

(***************************************************************************)
(* Source paths handed to the script.  The last segment "w" stands for the *)
(* tag and extension part of a wheel file name (py3-none-any.whl).         *)
(***************************************************************************)
PathAB1 == <<"d", "/", "a", "_", "b", "-", "1", "-", "w">>
PathAB2 == <<"a", "_", "b", "-", "2", "+", "l", "-", "w">>
PathCase == <<"A", ".", "b", "-", "1", "-", "w">>
PathC1 == <<"c", "-", "1", "-", "w">>
PathBad == <<"a", "_", "b", ".", "w">>

Paths == {PathAB1, PathAB2, PathCase, PathC1, PathBad}

\* what is found at a source path: a regular file, a directory, or nothing
Missing == [kind |-> "missing"]
Directory == [kind |-> "dir"]
RegularFile(content) == [kind |-> "file", content |-> content]

SourceStates == {Missing, Directory} \cup { RegularFile(c) : c \in Contents }

WhlFiles ==
    [path : Paths, at : SourceStates] \cup {[path |-> PathC1, at |-> RegularFile(Wheel3)]}

BaseUrls == {"https://repo.example/simple"}

\* package names and stored file locations that the paths can produce
ValidPaths == { p \in Paths : Len(Split(Basename(p), "-")) >= 2 }
PkgNames == { Split(Basename(p), "-")[1] : p \in ValidPaths }
Dests == { <<Split(Basename(p), "-")[1], Split(Basename(p), "-")[2], Basename(p)>> : p \in ValidPaths }

(***************************************************************************)
(* urllib.parse.quote: unreserved characters and "/" are kept, every other *)
(* character becomes a percent escape.                                     *)
(***************************************************************************)
Unreserved == {"a", "b", "c", "d", "l", "w", "A", "1", "2", "_", ".", "-", "~", "/"}

PercentEscape(c) ==
    CASE c = "+" -> "%2B"
      [] c = " " -> "%20"
      [] c = "<" -> "%3C"
      [] c = ">" -> "%3E"
      [] OTHER -> "%3F"

QuoteChar(c) == IF c \in Unreserved THEN <<c>> ELSE <<PercentEscape(c)>>

RECURSIVE quote(_)
quote(s) == IF s = <<>> THEN <<>> ELSE QuoteChar(Head(s)) \o quote(Tail(s))

(***************************************************************************)
(* Files of the repository                                                 *)
(***************************************************************************)
Absent == [exists |-> FALSE, data |-> <<>>]
File(data) == [exists |-> TRUE, data |-> data]

Markup(s) == [kind |-> "markup", s |-> s]
Newline == Markup("\n")

\* a line of a package index
Line(indent, text, trail) == [indent |-> indent, text |-> text, trail |-> trail]
Blank == Markup("")

\* line.strip()
StripLine(line) == line.text

\* line.rstrip(): a line of whitespace only becomes the empty string
RStripLine(line) ==
    IF line.text = Blank THEN Line(0, Blank, 0)
    ELSE Line(line.indent, line.text, 0)

(***************************************************************************)
(* update_root_index, lines 37-46: the new text of the root index          *)
(***************************************************************************)
RootLink(pkg_name) ==
    [kind |-> "a", href |-> pkg_name, rel |-> "internal", text |-> pkg_name]

\* variant: the closing marker is not put back after the link
ReplaceBody_unclosed(tok, link_entry) ==
    IF tok = Markup("</body>") THEN <<link_entry, Newline>> ELSE <<tok>>

\* content.replace("</body>", f"{link_entry}\n</body>"): every occurrence
ReplaceBody(tok, link_entry) ==
    IF tok = Markup("</body>") THEN <<link_entry, Newline, Markup("</body>")>> ELSE <<tok>>

RECURSIVE ReplaceAllBody(_, _)
ReplaceAllBody(content, link_entry) ==
    IF content = <<>> THEN <<>>
    ELSE ReplaceBody(Head(content), link_entry) \o ReplaceAllBody(Tail(content), link_entry)

RootTemplate(link_entry) ==
    << Markup("<!DOCTYPE html>"), Newline,
       Markup("<html>"), Markup("<head>"), Markup("<title>Simple Index</title>"),
       Markup("<meta name=\"api-version\" value=\"2\" />"), Markup("</head>"),
       Markup("<body>"), Newline,
       link_entry, Newline,
       Markup("</body>"), Markup("</html>") >>

\* variant: the link is inserted without looking for it in the text
RootContent_always(pkg_name, existing) ==
    IF existing.exists
    THEN ReplaceAllBody(existing.data, RootLink(pkg_name))
    ELSE RootTemplate(RootLink(pkg_name))

\* existing: the file as found by os.path.exists and f.read().
\* "link_entry not in content" is a search for the link as a whole token: a
\* package name holds neither "/" nor "-", so the text of one link is found
\* inside the text of another only for names that themselves hold markup.
RootContent(pkg_name, existing) ==
    LET link_entry == RootLink(pkg_name) IN
    IF existing.exists
    THEN IF link_entry \notin Range(existing.data)
         THEN ReplaceAllBody(existing.data, link_entry)
         ELSE existing.data
    ELSE RootTemplate(link_entry)

(***************************************************************************)
(* update_package_index, lines 56-92                                       *)
(***************************************************************************)
EscapeChar(c) ==
    IF c = "<" THEN <<"&lt;">> ELSE IF c = ">" THEN <<"&gt;">> ELSE <<c>>

\* requires_python.replace("<", "&lt;").replace(">", "&gt;")
RECURSIVE EscapeAttr(_)
EscapeAttr(s) == IF s = <<>> THEN <<>> ELSE EscapeChar(Head(s)) \o EscapeAttr(Tail(s))

\* variant: the attribute is rendered whatever the extraction returned
RequiresPythonAttr_always(requires_python) == Some(EscapeAttr(requires_python.v))

\* the attribute is rendered only for a non-empty value
RequiresPythonAttr(requires_python) ==
    IF requires_python.some /\ requires_python.v # <<>>
    THEN Some(EscapeAttr(requires_python.v))
    ELSE None

\* variant: the file name goes into the URL as it stands
WhlUrl_unquoted(base_url, pkg_name, version, whl_filename, sha256_hash) ==
    [base |-> base_url, pkg |-> pkg_name, version |-> version,
     file |-> whl_filename, sha256 |-> sha256_hash]

WhlUrl(base_url, pkg_name, version, whl_filename, sha256_hash) ==
    [base |-> base_url, pkg |-> pkg_name, version |-> version,
     file |-> quote(whl_filename), sha256 |-> sha256_hash]

\* the text of the link, after its eight leading spaces
PkgLink(pkg_name, version, whl_filename, base_url, sha256_hash, requires_python) ==
    [kind |-> "a",
     href |-> WhlUrl(base_url, pkg_name, version, whl_filename, sha256_hash),
     requires |-> RequiresPythonAttr(requires_python),
     rel |-> "internal",
     text |-> whl_filename]

LinkLine(link) == Line(8, link, 0)

\* variant: the new line is appended after the closing body line
InsertBeforeLast_after(s, x) == Append(s, x)

\* cleaned_content.insert(-1, x): x goes before the last element
InsertBeforeLast(s, x) ==
    IF s = <<>> THEN <<x>>
    ELSE Append(SubSeq(s, 1, Len(s) - 1), x) \o <<s[Len(s)]>>

\* the loop of lines 68-77
RECURSIVE CleanLoop(_, _, _, _)
CleanLoop(content, cleaned_content, inside_body, link_entry) ==
    IF content = <<>> THEN cleaned_content
    ELSE LET line == Head(content)
             stripped_line == StripLine(line)
             inside1 == inside_body \/ stripped_line = Markup("<body>")
             cleaned1 == Append(cleaned_content, RStripLine(line))
         IN  IF stripped_line = Markup("</body>") /\ inside1
             THEN CleanLoop(Tail(content), InsertBeforeLast(cleaned1, link_entry), FALSE, link_entry)
             ELSE CleanLoop(Tail(content), cleaned1, inside1, link_entry)

PkgTemplate(link_entry) ==
    << Line(0, Markup("<!DOCTYPE html>"), 0),
       Line(0, Markup("<html>"), 0),
       Line(4, Markup("<head>"), 0),
       Line(8, Markup("<title>Simple Index</title>"), 0),
       Line(8, Markup("<meta name=\"api-version\" value=\"2\"/>"), 0),
       Line(4, Markup("</head>"), 0),
       Line(4, Markup("<body>"), 0),
       link_entry,
       Line(4, Markup("</body>"), 0),
       Line(0, Markup("</html>"), 0) >>

\* existing: the file as found by os.path.exists and f.readlines()
PkgContent(link_entry, existing) ==
    IF existing.exists
    THEN CleanLoop(existing.data, <<>>, FALSE, link_entry)
    ELSE PkgTemplate(link_entry)

(***************************************************************************)
(* State: the repository under root_dir, and what the invocations so far   *)
(* were given and reported.                                                *)
(***************************************************************************)
VARIABLES
    rootIndex,      \* root_dir/index.html: Absent or File(tokens)
    pkgIndex,       \* root_dir/<pkg>/index.html, per package: Absent or File(lines)
    dirs,           \* the directories under root_dir, as paths
    files,          \* root_dir/<pkg>/<version>/<file>: Absent or File(content)
    calls,          \* number of invocations run one after the other
    lastWhl,        \* the arguments of the last invocation
    lastOutcome,    \* how the last invocation ended
    pristine,       \* the repository was empty at the start
    log,            \* per package, the link lines of the merges that ran to the end
    pc,             \* per racing invocation, the step it is about to take
    arg,            \* per racing invocation, its arguments
    new_content,    \* per racing invocation, its local variable content
    sha256_hash,    \* per racing invocation, its local variable sha256_hash
    outcome         \* per racing invocation, how it ended

repo == <<rootIndex, pkgIndex, dirs, files>>
hist == <<calls, lastWhl, lastOutcome, pristine, log>>
procs == <<pc, arg, new_content, sha256_hash, outcome>>

Procs == 1..NumProcs

NameAB == <<"a", "_", "b">>
DestAB1 == <<NameAB, <<"1">>, Basename(PathAB1)>>

EmptyRepo ==
    [rootIndex |-> Absent,
     pkgIndex |-> [n \in PkgNames |-> Absent],
     dirs |-> {},
     files |-> [d \in Dests |-> Absent]]

\* a package index cut to nothing by an interrupted rewrite
TruncatedRepo ==
    [rootIndex |-> File(RootTemplate(RootLink(NameAB))),
     pkgIndex |-> [n \in PkgNames |-> IF n = NameAB THEN File(<<>>) ELSE Absent],
     dirs |-> {<<NameAB>>},
     files |-> [d \in Dests |-> Absent]]

\* a package index holding markup without body lines
GarbageRepo ==
    [TruncatedRepo EXCEPT
        !.pkgIndex = [n \in PkgNames |->
            IF n = NameAB THEN File(<< Line(0, Markup("<p>junk"), 0) >>) ELSE Absent]]

\* a root index cut to nothing, nothing else in the repository
RootTruncatedRepo == [EmptyRepo EXCEPT !.rootIndex = File(<<>>)]

\* a package index kept by another writer: no indentation, "\r\n" line ends
ForeignLink == PkgLink(NameAB, <<"1">>, Basename(PathAB1), "https://repo.example/simple",
                       calculate_sha256(Wheel1), extract_requires_python(Wheel1))

ForeignRepo ==
    [rootIndex |-> File(RootTemplate(RootLink(NameAB))),
     pkgIndex |-> [n \in PkgNames |->
        IF n = NameAB
        THEN File(<< Line(0, Markup("<html>"), 1), Line(0, Markup("<body>"), 1),
                     Line(0, ForeignLink, 1), Line(0, Markup("</body>"), 1),
                     Line(0, Markup("</html>"), 1) >>)
        ELSE Absent],
     dirs |-> {<<NameAB>>, <<NameAB, <<"1">>>>},
     files |-> [d \in Dests |-> IF d = DestAB1 THEN File(Wheel1) ELSE Absent]]

\* a root index left by two racing rewrites: the shorter text (one package)
\* written at offset 0 over the longer one (two packages), whose end stays
MixedRootRepo ==
    [ForeignRepo EXCEPT
        !.rootIndex = File(RootTemplate(RootLink(NameAB))
                           \o <<Markup("</body>"), Markup("</html>")>>)]

InitRepos ==
    {EmptyRepo, TruncatedRepo, GarbageRepo, RootTruncatedRepo, ForeignRepo, MixedRootRepo}

NoCall == [path |-> <<>>, at |-> Missing, base_url |-> ""]

Init ==
    /\ \E r \in InitRepos :
        /\ rootIndex = r.rootIndex
        /\ pkgIndex = r.pkgIndex
        /\ dirs = r.dirs
        /\ files = r.files
        /\ pristine = (r = EmptyRepo)
    /\ calls = 0
    /\ lastWhl = NoCall
    /\ lastOutcome = "none"
    /\ log = [n \in PkgNames |-> <<>>]
    /\ pc = [p \in Procs |-> "start"]
    /\ arg = [p \in Procs |-> NoCall]
    /\ new_content = [p \in Procs |-> <<>>]
    /\ sha256_hash = [p \in Procs |-> 0]
    /\ outcome = [p \in Procs |-> "none"]

(***************************************************************************)
(* The steps of process_whl_file as functions of what they read            *)
(***************************************************************************)
\* os.makedirs(pkg_version_dir, exist_ok=True)
makedirs(ds, pkg_name, version) == ds \cup {<<pkg_name>>, <<pkg_name, version>>}

\* lines 56-61: the link line for the artifact stored at dest_whl_path
link_entry_of(pkg_name, version, whl_filename, base_url, stored) ==
    LinkLine(PkgLink(pkg_name, version, whl_filename, base_url,
                     calculate_sha256(stored), extract_requires_python(stored)))

\* how main ends for an outcome of process_whl_file
ExitStatus(result) == IF result = "exception" THEN 1 ELSE 0

\* variant: the existence check is left out
os_path_exists_unchecked(at) == TRUE

\* os.path.exists(whl_file), line 100
os_path_exists(at) == at.kind # "missing"

\* len(parts) < 2, line 106
invalid_format(parts) == Len(parts) < 2

\* shutil.copy2 copies a regular file and raises for anything else
copy2_raises(at) == at.kind # "file"

(***************************************************************************)
(* process_whl_file, run from start to end with no other invocation        *)
(* running: lines 98-121                                                   *)
(***************************************************************************)
process_whl_file(whl, base_url) ==
    LET whl_filename == Basename(whl.path)
        parts == Split(whl_filename, "-")
    IN
    /\ calls < MaxMerges
    /\ calls' = calls + 1
    /\ lastWhl' = [path |-> whl.path, at |-> whl.at, base_url |-> base_url]
    /\ UNCHANGED <<pristine, procs>>
    /\ IF ~os_path_exists(whl.at)
       THEN /\ lastOutcome' = "not_found"
            /\ UNCHANGED <<repo, log>>
       ELSE IF invalid_format(parts)
       THEN /\ lastOutcome' = "invalid_name"
            /\ UNCHANGED <<repo, log>>
       ELSE LET pkg_name == parts[1]
                version == parts[2]
                dest == <<pkg_name, version, whl_filename>>
            IN
            /\ dirs' = makedirs(dirs, pkg_name, version)
            /\ IF copy2_raises(whl.at)
               THEN /\ lastOutcome' = "exception"
                    /\ UNCHANGED <<rootIndex, pkgIndex, files, log>>
               ELSE LET link_entry == link_entry_of(pkg_name, version, whl_filename,
                                                    base_url, whl.at.content)
                    IN
                    /\ files' = [files EXCEPT ![dest] = File(whl.at.content)]
                    /\ rootIndex' = File(RootContent(pkg_name, rootIndex))
                    /\ pkgIndex' = [pkgIndex EXCEPT
                            ![pkg_name] = File(PkgContent(link_entry, pkgIndex[pkg_name]))]
                    /\ log' = [log EXCEPT ![pkg_name] = Append(@, link_entry)]
                    /\ lastOutcome' = "ok"

Next == \E whl \in WhlFiles, base_url \in BaseUrls : process_whl_file(whl, base_url)

vars == <<rootIndex, pkgIndex, dirs, files, calls, lastWhl, lastOutcome, pristine, log,
          pc, arg, new_content, sha256_hash, outcome>>

Spec == Init /\ [][Next]_vars

(***************************************************************************)
(* Invocations racing on one repository root.  Each invocation is a        *)
(* process of its own; its system calls interleave with those of the       *)
(* others.  A step is one access to a shared file:                         *)
(*   start       lines 100-114  checks of the arguments, makedirs          *)
(*   copy        line 117       shutil.copy2 (taken as one step)           *)
(*   root_read   lines 40-46    exists, read, new text of the root index   *)
(*   root_open   line 48        open(index_file, "w") empties the file     *)
(*   root_write  line 49        the buffered text is written at offset 0   *)
(*   hash        line 56        calculate_sha256(dest_whl_path)            *)
(*   pkg_read    lines 59-92    metadata, exists, readlines, new lines     *)
(*   pkg_open    line 94        open(index_file, "w") empties the file     *)
(*   pkg_write   line 95        the buffered text is written at offset 0   *)
(* No step removes a file, so os.path.exists and the read that follows it  *)
(* are one step.  The read of the metadata (line 59) is of the stored      *)
(* artifact and the read that follows it is of the package index: a step   *)
(* of another invocation between the two touches at most one of the two    *)
(* files and can be moved before the first or after the second, so the     *)
(* two reads are one step as well.                                         *)
(***************************************************************************)
ConcWhlFiles ==
    { [path |-> PathAB1, at |-> RegularFile(Wheel1)],
      [path |-> PathAB2, at |-> RegularFile(Wheel1)],
      [path |-> PathC1, at |-> RegularFile(Wheel1)],
      [path |-> PathC1, at |-> Missing] }

\* a write at offset 0 into a file that other writers may have filled since
\* this writer emptied it: what lies beyond the written text stays
WriteAtStart(old, new) == new \o SubSeq(old, Len(new) + 1, Len(old))

\* the local variables whl_filename, parts, pkg_name, version and dest_path of
\* an invocation, assigned once at its start
ArgFilename(p) == arg[p].whl_filename
ArgPkg(p) == arg[p].parts[1]
ArgVersion(p) == arg[p].parts[2]
ArgDest(p) == <<ArgPkg(p), ArgVersion(p), ArgFilename(p)>>

Finish(p, result) ==
    /\ pc' = [pc EXCEPT ![p] = "done"]
    /\ outcome' = [outcome EXCEPT ![p] = result]
    /\ new_content' = [new_content EXCEPT ![p] = <<>>]

Start(p) ==
    /\ pc[p] = "start"
    /\ \E whl \in ConcWhlFiles, base_url \in BaseUrls :
       \E whl_filename \in {Basename(whl.path)} :
       \E parts \in {Split(whl_filename, "-")} :
        /\ arg' = [arg EXCEPT ![p] = [path |-> whl.path, at |-> whl.at, base_url |-> base_url,
                                      whl_filename |-> whl_filename, parts |-> parts]]
        /\ IF ~os_path_exists(whl.at)
           THEN Finish(p, "not_found") /\ UNCHANGED dirs
           ELSE IF invalid_format(parts)
           THEN Finish(p, "invalid_name") /\ UNCHANGED dirs
           ELSE /\ dirs' = makedirs(dirs, parts[1], parts[2])
                /\ pc' = [pc EXCEPT ![p] = "copy"]
                /\ UNCHANGED <<outcome, new_content>>
    /\ UNCHANGED <<rootIndex, pkgIndex, files, sha256_hash, hist>>

Copy(p) ==
    /\ pc[p] = "copy"
    /\ IF copy2_raises(arg[p].at)
       THEN Finish(p, "exception") /\ UNCHANGED files
       ELSE /\ files' = [files EXCEPT ![ArgDest(p)] = File(arg[p].at.content)]
            /\ pc' = [pc EXCEPT ![p] = "root_read"]
            /\ UNCHANGED <<outcome, new_content>>
    /\ UNCHANGED <<rootIndex, pkgIndex, dirs, arg, sha256_hash, hist>>

RootRead(p) ==
    /\ pc[p] = "root_read"
    /\ \E pkg_name \in {ArgPkg(p)} :
        new_content' = [new_content EXCEPT ![p] = RootContent(pkg_name, rootIndex)]
    /\ pc' = [pc EXCEPT ![p] = "root_open"]
    /\ UNCHANGED <<repo, arg, sha256_hash, outcome, hist>>

\* variant: an invocation waits while another one is about to open an index
may_open_backoff(p) == \A q \in Procs \ {p} : pc[q] \notin {"root_open", "pkg_open"}

\* open(index_file, "w") takes no lock and waits for no other invocation
may_open(p) == TRUE

RootOpen(p) ==
    /\ pc[p] = "root_open"
    /\ may_open(p)
    /\ rootIndex' = File(<<>>)
    /\ pc' = [pc EXCEPT ![p] = "root_write"]
    /\ UNCHANGED <<pkgIndex, dirs, files, arg, new_content, sha256_hash, outcome, hist>>

RootWrite(p) ==
    /\ pc[p] = "root_write"
    /\ rootIndex' = File(WriteAtStart(rootIndex.data, new_content[p]))
    /\ pc' = [pc EXCEPT ![p] = "hash"]
    /\ new_content' = [new_content EXCEPT ![p] = <<>>]
    /\ UNCHANGED <<pkgIndex, dirs, files, arg, sha256_hash, outcome, hist>>

Hash(p) ==
    /\ pc[p] = "hash"
    /\ \E whl_data \in {files[ArgDest(p)].data} :
        sha256_hash' = [sha256_hash EXCEPT ![p] = calculate_sha256(whl_data)]
    /\ pc' = [pc EXCEPT ![p] = "pkg_read"]
    /\ UNCHANGED <<repo, arg, new_content, outcome, hist>>

PkgRead(p) ==
    /\ pc[p] = "pkg_read"
    /\ \E requires_python \in {RequiresPythonOf[files[ArgDest(p)].data]} :
       \E link_entry \in {LinkLine(PkgLink(ArgPkg(p), ArgVersion(p), ArgFilename(p),
                                           arg[p].base_url, sha256_hash[p], requires_python))} :
       \E existing \in {pkgIndex[ArgPkg(p)]} :
       \E cleaned_content \in {PkgContent(link_entry, existing)} :
           new_content' = [new_content EXCEPT ![p] = cleaned_content]
    /\ pc' = [pc EXCEPT ![p] = "pkg_open"]
    /\ UNCHANGED <<repo, arg, sha256_hash, outcome, hist>>

PkgOpen(p) ==
    /\ pc[p] = "pkg_open"
    /\ may_open(p)
    /\ pkgIndex' = [pkgIndex EXCEPT ![ArgPkg(p)] = File(<<>>)]
    /\ pc' = [pc EXCEPT ![p] = "pkg_write"]
    /\ UNCHANGED <<rootIndex, dirs, files, arg, new_content, sha256_hash, outcome, hist>>

PkgWrite(p) ==
    /\ pc[p] = "pkg_write"
    /\ \E pkg_name \in {ArgPkg(p)} :
        pkgIndex' = [pkgIndex EXCEPT
            ![pkg_name] = File(WriteAtStart(pkgIndex[pkg_name].data, new_content[p]))]
    /\ Finish(p, "ok")
    /\ UNCHANGED <<rootIndex, dirs, files, arg, sha256_hash, hist>>

\* the steps that call into the file system and can raise OSError
IOSteps == {"copy", "root_read", "root_open", "root_write",
            "hash", "pkg_read", "pkg_open", "pkg_write"}

\* The call the invocation is about to make raises (disk full, permission,
\* read error).  Nothing catches it: the invocation ends with a traceback and
\* what it has done so far stays.  With no root index there is nothing to
\* read at root_read.
Fail(p) ==
    /\ pc[p] \in IOSteps
    /\ pc[p] = "root_read" => rootIndex.exists
    /\ Finish(p, "exception")
    /\ UNCHANGED <<repo, arg, sha256_hash, hist>>

NextConc ==
    \E p \in Procs :
        \/ Fail(p)
        \/ Start(p)
        \/ Copy(p)
        \/ RootRead(p)
        \/ RootOpen(p)
        \/ RootWrite(p)
        \/ Hash(p)
        \/ PkgRead(p)
        \/ PkgOpen(p)
        \/ PkgWrite(p)

\* the racing invocations start on an empty repository
InitConc == Init /\ pristine

SpecConc == InitConc /\ [][NextConc]_vars

\* Each invocation is an operating-system process of its own: the scheduler
\* lets some invocation take its next step as long as one can be taken.
\* Every step moves its invocation forward, so this is all that termination
\* needs.  Whether a call fails is up to the environment, so Fail is under
\* no fairness.
Step(p) ==
    \/ Start(p)
    \/ Copy(p)
    \/ RootRead(p)
    \/ RootOpen(p)
    \/ RootWrite(p)
    \/ Hash(p)
    \/ PkgRead(p)
    \/ PkgOpen(p)
    \/ PkgWrite(p)

SpecConcFair == SpecConc /\ WF_vars(\E p \in Procs : Step(p))

(***************************************************************************)
(* Observers used to state the properties                                  *)
(***************************************************************************)
IsLink(line) == line.text.kind = "a"

\* every link line of a package index file, wherever it stands
AllLinks(file) == SelectSeq(file.data, IsLink)

\* the link lines between an opening and the next closing body line
RECURSIVE BodyLinksFrom(_, _)
BodyLinksFrom(lines, inside) ==
    IF lines = <<>> THEN <<>>
    ELSE LET t == Head(lines).text IN
         IF t = Markup("<body>") THEN BodyLinksFrom(Tail(lines), TRUE)
         ELSE IF t = Markup("</body>") THEN BodyLinksFrom(Tail(lines), FALSE)
         ELSE IF inside /\ IsLink(Head(lines)) THEN <<Head(lines)>> \o BodyLinksFrom(Tail(lines), inside)
         ELSE BodyLinksFrom(Tail(lines), inside)

BodyLinks(file) == BodyLinksFrom(file.data, FALSE)

\* an opening body line followed, later, by a closing one
HasBodyMarkers(file) ==
    \E i, j \in 1..Len(file.data) :
        /\ i < j
        /\ file.data[i].text = Markup("<body>")
        /\ file.data[j].text = Markup("</body>")

DisplayTexts(links) == [i \in 1..Len(links) |-> links[i].text.text]

NoRepeat(s) == \A i, j \in 1..Len(s) : s[i] = s[j] => i = j

\* the inverse of quote on the escapes of the model
UnquoteChar(c) ==
    CASE c = "%2B" -> "+"
      [] c = "%20" -> " "
      [] c = "%3C" -> "<"
      [] c = "%3E" -> ">"
      [] OTHER -> c

Unquote(s) == [i \in 1..Len(s) |-> UnquoteChar(s[i])]

\* the stored file a download link points at
Resolve(href) == <<href.pkg, href.version, Unquote(href.file)>>

RootLinks(file) == SelectSeq(file.data, LAMBDA t : t.kind = "a")

Merged == calls' = calls + 1

PkgOf(path) == Split(Basename(path), "-")[1]

(***************************************************************************)
(* C1  Idempotence of process_whl_file: a merge that repeats the merge     *)
(* before it (same artifact, same base URL) leaves root index, package     *)
(* index, directories and stored files as they were, with one link for     *)
(* the artifact in the package index.  Stated for the repositories built   *)
(* by merges into an empty one, which are among "every repository state".  *)
(***************************************************************************)
C1_Idempotent ==
    [][(pristine /\ Merged /\ lastOutcome = "ok" /\ lastOutcome' = "ok" /\ lastWhl' = lastWhl)
        => /\ rootIndex' = rootIndex
           /\ pkgIndex' = pkgIndex
           /\ dirs' = dirs
           /\ files' = files
           /\ Cardinality({ i \in 1..Len(AllLinks(pkgIndex'[PkgOf(lastWhl'.path)])) :
                    AllLinks(pkgIndex'[PkgOf(lastWhl'.path)])[i].text.text
                        = Basename(lastWhl'.path) }) = 1]_vars

(***************************************************************************)
(* C2  Uniqueness: starting from an empty repository, no package index     *)
(* ever holds two entries with the same display text.                      *)
(***************************************************************************)
C2_UniqueDisplayText ==
    pristine => \A n \in PkgNames : NoRepeat(DisplayTexts(AllLinks(pkgIndex[n])))

(***************************************************************************)
(* C3  Digest correctness: after any sequence of completed merges into an  *)
(* empty repository, every link of every package index carries the sha256  *)
(* of the bytes now stored at the path the link resolves to.               *)
(***************************************************************************)
C3_DigestOfStoredBytes ==
    pristine => \A n \in PkgNames : \A i \in 1..Len(AllLinks(pkgIndex[n])) :
        LET href == AllLinks(pkgIndex[n])[i].text.href IN
        /\ Resolve(href) \in Dests
        /\ files[Resolve(href)].exists
        /\ href.sha256 = calculate_sha256(files[Resolve(href)].data)

(***************************************************************************)
(* C6  Corrupt package index treated as empty: a merge of a valid artifact *)
(* into a package whose index file exists without body markers ends well   *)
(* and leaves an index holding the new entry alone, with no line of the    *)
(* earlier content.                                                        *)
(***************************************************************************)
LineTexts(file) == { file.data[i].text : i \in 1..Len(file.data) }

ValidInput(whl) ==
    /\ whl.at.kind = "file"
    /\ Len(Split(Basename(whl.path), "-")) >= 2

C6_CorruptTreatedAsEmpty ==
    [][\A n \in PkgNames :
        (/\ Merged
         /\ ValidInput(lastWhl')
         /\ PkgOf(lastWhl'.path) = n
         /\ pkgIndex[n].exists
         /\ ~HasBodyMarkers(pkgIndex[n]))
        => /\ lastOutcome' = "ok"
           /\ Len(AllLinks(pkgIndex'[n])) = 1
           /\ BodyLinks(pkgIndex'[n]) = AllLinks(pkgIndex'[n])
           /\ DisplayTexts(AllLinks(pkgIndex'[n])) = <<Basename(lastWhl'.path)>>
           /\ LineTexts(pkgIndex[n]) \cap LineTexts(pkgIndex'[n]) = {}]_vars

(***************************************************************************)
(* C7  Canonicalization: package names that differ only in letter case or  *)
(* in separator style share one package directory, one package index and   *)
(* one root-index link.                                                    *)
(***************************************************************************)
Lower(c) == IF c = "A" THEN "a" ELSE c

IsSeparator(c) == c \in {".", "_", "-"}

\* lowercase, every run of ".", "_", "-" collapsed into one "-"
RECURSIVE Canon(_)
Canon(name) ==
    IF name = <<>> THEN <<>>
    ELSE IF IsSeparator(Head(name))
         THEN IF Len(name) > 1 /\ IsSeparator(name[2])
              THEN Canon(Tail(name))
              ELSE <<"-">> \o Canon(Tail(name))
         ELSE <<Lower(Head(name))>> \o Canon(Tail(name))

C7_CanonicalNames ==
    pristine =>
        /\ \A d1, d2 \in dirs :
            (Len(d1) = 1 /\ Len(d2) = 1 /\ Canon(d1[1]) = Canon(d2[1])) => d1 = d2
        /\ \A n1, n2 \in PkgNames :
            (pkgIndex[n1].exists /\ pkgIndex[n2].exists /\ Canon(n1) = Canon(n2)) => n1 = n2
        /\ \A i, j \in 1..Len(RootLinks(rootIndex)) :
            Canon(RootLinks(rootIndex)[i].href) = Canon(RootLinks(rootIndex)[j].href) => i = j

(***************************************************************************)
(* C8  Fatal input errors abort before any mutation: an invocation whose   *)
(* source path is missing, or whose file name has fewer than two segments  *)
(* between "-", leaves directories, stored files and both index files as   *)
(* they were.                                                              *)
(***************************************************************************)
C8_FatalInputNoMutation ==
    [][(/\ Merged
        /\ \/ lastWhl'.at = Missing
           \/ Len(Split(Basename(lastWhl'.path), "-")) < 2)
        => /\ rootIndex' = rootIndex
           /\ pkgIndex' = pkgIndex
           /\ dirs' = dirs
           /\ files' = files]_vars

\* a malformed name was rejected by a repository that already holds a package
C8_Witness ==
    /\ calls >= 2
    /\ rootIndex.exists
    /\ dirs # {}
    /\ lastWhl.at.kind = "file"
    /\ Len(Split(Basename(lastWhl.path), "-")) < 2
    /\ lastOutcome = "invalid_name"

(***************************************************************************)
(* C9  Every fatal error (missing artifact, malformed name, failed copy)   *)
(* ends the script in an outcome other than that of a successful run.      *)
(***************************************************************************)
C9_FatalErrorsDistinguishable ==
    lastOutcome \in {"not_found", "invalid_name", "exception"}
        => ExitStatus(lastOutcome) # ExitStatus("ok")

(***************************************************************************)
(* C10  No duplication, stable order: starting from an empty repository,   *)
(* as long as the merges of a package had pairwise distinct file names,    *)
(* its index holds exactly the link lines those merges wrote, unchanged,   *)
(* in the order of the merges, all of them inside the body.                *)
(***************************************************************************)
C10_DistinctKeptInOrder ==
    \A n \in PkgNames :
        (pristine /\ NoRepeat(DisplayTexts(log[n])))
        => /\ BodyLinks(pkgIndex[n]) = log[n]
           /\ AllLinks(pkgIndex[n]) = log[n]

\* two artifacts of one package merged, the later-numbered one first
C10_Witness ==
    /\ pristine
    /\ Len(log[NameAB]) = 2
    /\ DisplayTexts(log[NameAB]) = <<Basename(PathAB2), Basename(PathAB1)>>
    /\ Len(BodyLinks(pkgIndex[NameAB])) = 2

(***************************************************************************)
(* C4  Atomic index writes: with invocations racing on one root, an        *)
(* invocation about to read an index file finds it absent or a complete    *)
(* document, never empty, cut short or mixed from two writers; and when    *)
(* all have ended every index file is a complete document.                 *)
(***************************************************************************)
Count(seq, x) == Cardinality({ i \in 1..Len(seq) : seq[i] = x })

CompleteRoot(file) ==
    /\ file.data # <<>>
    /\ file.data[1] = Markup("<!DOCTYPE html>")
    /\ file.data[Len(file.data)] = Markup("</html>")
    /\ Count(file.data, Markup("<body>")) = 1
    /\ Count(file.data, Markup("</body>")) = 1
    /\ Count(file.data, Markup("</html>")) = 1

Texts(file) == [i \in 1..Len(file.data) |-> file.data[i].text]

CompletePkg(file) ==
    /\ file.data # <<>>
    /\ Texts(file)[1] = Markup("<!DOCTYPE html>")
    /\ Texts(file)[Len(file.data)] = Markup("</html>")
    /\ Count(Texts(file), Markup("<body>")) = 1
    /\ Count(Texts(file), Markup("</body>")) = 1
    /\ Count(Texts(file), Markup("</html>")) = 1

C4_AtomicIndexWrites ==
    /\ \A p \in Procs :
        (pc[p] = "root_read" /\ rootIndex.exists) => CompleteRoot(rootIndex)
    /\ \A p \in Procs :
        (pc[p] = "pkg_read" /\ pkgIndex[ArgPkg(p)].exists) => CompletePkg(pkgIndex[ArgPkg(p)])
    /\ (\A p \in Procs : pc[p] = "done")
        => /\ rootIndex.exists => CompleteRoot(rootIndex)
           /\ \A n \in PkgNames : pkgIndex[n].exists => CompletePkg(pkgIndex[n])

(***************************************************************************)
(* C5  No lost update: when the racing invocations have all ended well,    *)
(* the root index links the package of each of them and the index of that  *)
(* package lists the artifact of each of them.                             *)
(***************************************************************************)
C5_NoLostUpdate ==
    (\A p \in Procs : pc[p] = "done" /\ outcome[p] = "ok")
    => \A p \in Procs :
        /\ RootLink(ArgPkg(p)) \in Range(rootIndex.data)
        /\ ArgFilename(p) \in Range(DisplayTexts(AllLinks(pkgIndex[ArgPkg(p)])))

(***************************************************************************)
(* C11  Root index holds one entry per package: starting from an empty     *)
(* repository, after every merge the root index holds exactly one link per *)
(* package name merged so far; a merge of a further artifact of a package  *)
(* already linked leaves the root index as it was and adds exactly one     *)
(* entry to the index of that package.                                     *)
(***************************************************************************)
RootHrefs(file) == [i \in 1..Len(RootLinks(file)) |-> RootLinks(file)[i].href]

OnePerPackage(root, merged) ==
    /\ NoRepeat(RootHrefs(root))
    /\ Range(RootHrefs(root)) = { n \in PkgNames : merged[n] # <<>> }

C11_RootOnePerPackage ==
    [][(pristine /\ Merged)
        => /\ OnePerPackage(rootIndex', log')
           /\ \A n \in PkgNames :
                (/\ lastOutcome' = "ok"
                 /\ PkgOf(lastWhl'.path) = n
                 /\ n \in Range(RootHrefs(rootIndex)))
                => /\ rootIndex' = rootIndex
                   /\ Len(AllLinks(pkgIndex'[n])) = Len(AllLinks(pkgIndex[n])) + 1]_vars

\* two packages merged, one of them twice
C11_Witness ==
    /\ pristine
    /\ calls = 3
    /\ Len(log[NameAB]) = 2
    /\ Len(log[<<"c">>]) = 1
    /\ Len(RootLinks(rootIndex)) = 2

(***************************************************************************)
(* C12  First merge into an empty repository: merging <name>-<version>-... *)
(* with base URL B leaves a root index whose one link is                   *)
(* <a href="<name>" rel="internal"><name></a>, a package index whose one   *)
(* link has the href B/<name>/<version>/<percent-encoded file name> with   *)
(* the sha256 of the artifact as fragment, and the artifact stored at      *)
(* <name>/<version>/<file name>, the path the href resolves to.  (The      *)
(* digest is a number in the model; its rendering as 64 hex characters is  *)
(* not modelled.)                                                          *)
(***************************************************************************)
PercentEscapes == {"%2B", "%20", "%3C", "%3E", "%3F"}

FirstMergeResult(whl, root, pkgs, stored) ==
    LET whl_filename == Basename(whl.path)
        name == Split(whl_filename, "-")[1]
        version == Split(whl_filename, "-")[2]
        links == AllLinks(pkgs[name])
        a == links[1].text
    IN
    /\ RootLinks(root) = << [kind |-> "a", href |-> name, rel |-> "internal", text |-> name] >>
    /\ Len(links) = 1
    /\ BodyLinks(pkgs[name]) = links
    /\ a.href.base = whl.base_url
    /\ a.href.pkg = name
    /\ a.href.version = version
    /\ Unquote(a.href.file) = whl_filename
    /\ \A c \in Range(a.href.file) : c \in Unreserved \cup PercentEscapes
    /\ a.href.sha256 = calculate_sha256(whl.at.content)
    /\ a.rel = "internal"
    /\ a.text = whl_filename
    /\ Resolve(a.href) = <<name, version, whl_filename>>
    /\ stored[Resolve(a.href)] = File(whl.at.content)

C12_FirstMerge ==
    [][(pristine /\ calls = 0 /\ Merged /\ ValidInput(lastWhl'))
        => /\ lastOutcome' = "ok"
           /\ FirstMergeResult(lastWhl', rootIndex', pkgIndex', files')]_vars

\* the first merge was of the artifact whose file name needs an escape
C12_Witness ==
    /\ pristine
    /\ calls = 1
    /\ lastOutcome = "ok"
    /\ lastWhl.path = PathAB2
    /\ "%2B" \in Range(AllLinks(pkgIndex[NameAB])[1].text.href.file)

(***************************************************************************)
(* C13  Well-formedness: starting from an empty repository, after any      *)
(* number of merges every index file holds exactly one head section and    *)
(* exactly one body section, and every link lies between the opening and   *)
(* the closing body marker.                                                *)
(***************************************************************************)
IndexOf(seq, x) == CHOOSE i \in 1..Len(seq) : seq[i] = x

OneHeadOneBody(texts) ==
    /\ Count(texts, Markup("<head>")) = 1
    /\ Count(texts, Markup("</head>")) = 1
    /\ Count(texts, Markup("<body>")) = 1
    /\ Count(texts, Markup("</body>")) = 1
    /\ IndexOf(texts, Markup("<head>")) < IndexOf(texts, Markup("</head>"))
    /\ IndexOf(texts, Markup("</head>")) < IndexOf(texts, Markup("<body>"))
    /\ IndexOf(texts, Markup("<body>")) < IndexOf(texts, Markup("</body>"))

LinksInsideBody(texts) ==
    \A i \in 1..Len(texts) :
        texts[i].kind = "a"
        => /\ IndexOf(texts, Markup("<body>")) < i
           /\ i < IndexOf(texts, Markup("</body>"))

WellFormed(texts) == OneHeadOneBody(texts) /\ LinksInsideBody(texts)

C13_WellFormedIndexes ==
    pristine =>
        /\ rootIndex.exists => WellFormed(rootIndex.data)
        /\ \A n \in PkgNames : pkgIndex[n].exists => WellFormed(Texts(pkgIndex[n]))

\* a root index rewritten for a second package next to a package index
\* rewritten for a second artifact
C13_Witness ==
    /\ pristine
    /\ Len(RootLinks(rootIndex)) = 2
    /\ \E n \in PkgNames : Len(AllLinks(pkgIndex[n])) = 2
    /\ WellFormed(rootIndex.data)

(***************************************************************************)
(* C14  Metadata extraction failure is recovered locally: when the         *)
(* artifact is not a readable archive, has no metadata member, or has no   *)
(* Requires-Python line, a merge into a repository built from empty still  *)
(* ends well; the link of the artifact is added as the last entry of the   *)
(* package index, with href and rel and without data-requires-python, and  *)
(* the root index links the package.                                       *)
(***************************************************************************)
WithoutRequiresPython == {NotZip, Wheel3, Wheel2}

C14_MetadataFailureRecovered ==
    [][(/\ pristine
        /\ Merged
        /\ ValidInput(lastWhl')
        /\ lastWhl'.at.content \in WithoutRequiresPython)
        => LET n == PkgOf(lastWhl'.path)
               links == BodyLinks(pkgIndex'[n])
               a == links[Len(links)].text
           IN
           /\ lastOutcome' = "ok"
           /\ Len(links) = Len(BodyLinks(pkgIndex[n])) + 1
           /\ a.text = Basename(lastWhl'.path)
           /\ a.requires = [some |-> FALSE, v |-> <<>>]
           /\ a.rel = "internal"
           /\ a.href.sha256 = calculate_sha256(lastWhl'.at.content)
           /\ files'[Resolve(a.href)] = File(lastWhl'.at.content)
           /\ n \in Range(RootHrefs(rootIndex'))]_vars

\* an archive without a metadata member was merged after another artifact
C14_Witness ==
    /\ pristine
    /\ calls >= 2
    /\ lastOutcome = "ok"
    /\ lastWhl.at = RegularFile(Wheel3)
    /\ Len(AllLinks(pkgIndex[<<"c">>])) >= 1
    /\ AllLinks(pkgIndex[<<"c">>])[Len(AllLinks(pkgIndex[<<"c">>]))].text.requires = None

(***************************************************************************)
(* C17  Success implies the entry is present: after an invocation that ran *)
(* to the end and reported success, whatever the two index files held      *)
(* before (absent, well-formed, without body markers), the root index      *)
(* holds the link to the package of the artifact and the package index     *)
(* holds the link to the artifact.                                         *)
(***************************************************************************)
C17_SuccessImpliesEntry ==
    (calls > 0 /\ lastOutcome = "ok")
    => /\ PkgOf(lastWhl.path) \in Range(RootHrefs(rootIndex))
       /\ Basename(lastWhl.path) \in Range(DisplayTexts(AllLinks(pkgIndex[PkgOf(lastWhl.path)])))

(***************************************************************************)
(* C18  Frame of a merge across packages: a merge of an artifact of        *)
(* package A leaves the package index, the directories and the stored      *)
(* files of every other package as they were, keeps every link of the root *)
(* index, and adds at most one link, for A, to the root index.             *)
(***************************************************************************)
C18_FrameAcrossPackages ==
    [][Merged
        => LET a == PkgOf(lastWhl'.path) IN
           /\ \A b \in PkgNames \ {a} : pkgIndex'[b] = pkgIndex[b]
           /\ \A d \in Dests : d[1] # a => files'[d] = files[d]
           /\ { d \in dirs' : d[1] # a } = { d \in dirs : d[1] # a }
           /\ \/ RootLinks(rootIndex') = RootLinks(rootIndex)
              \/ RootLinks(rootIndex') =
                    Append(RootLinks(rootIndex),
                           [kind |-> "a", href |-> a, rel |-> "internal", text |-> a])]_vars

(***************************************************************************)
(* C16  Step ordering: the package index is updated before the root index  *)
(* refers to the package, so that in every intermediate state, and after a *)
(* failure at any step, every package linked from the root index has a     *)
(* package index holding at least one entry.                               *)
(***************************************************************************)
C16_LinkedPackageHasEntry ==
    \A i \in 1..Len(RootLinks(rootIndex)) :
        LET n == RootLinks(rootIndex)[i].href IN
        /\ n \in PkgNames
        /\ pkgIndex[n].exists
        /\ Len(AllLinks(pkgIndex[n])) >= 1

(***************************************************************************)
(* C15  No invocation blocks indefinitely: with any number of invocations  *)
(* racing on one root, every invocation eventually ends, with the success  *)
(* message, an error message or an exception.                              *)
(***************************************************************************)
C15_EveryInvocationEnds == <>(\A p \in Procs : pc[p] = "done")

\* all invocations have ended, having merged into the same package
C15_Witness ==
    /\ \A p \in Procs : pc[p] = "done" /\ outcome[p] = "ok"
    /\ \A p, q \in Procs : ArgPkg(p) = ArgPkg(q)

====
